---- MODULE Spec2Model ----
(***************************************************************************)
(* TinyLink backend: the link lifecycle (create / stats / redirect /       *)
(* delete) as the Express handlers, the LinkService and the Mongoose Link  *)
(* model execute it.  Every request is one process.  The database executes *)
(* each single-document command (findOne, insert, updateOne,               *)
(* findOneAndDelete) atomically, and a process takes one step per command: *)
(* the command's execution together with the handler code that runs from   *)
(* its answer up to the next await.  The code a handler runs before its    *)
(* first command (validation, code generation) reads and writes nothing    *)
(* shared and belongs to the first step.                                   *)
(***************************************************************************)
EXTENDS Integers, Sequences, FiniteSets, TLC

VARIABLES
    store,    \* the 'links' collection: a set of documents
    nextId,   \* source of fresh _id values (ObjectId)
    now,      \* the wall clock read by Date.now / new Date()
    pc,       \* per request: where its handler is suspended
    req,      \* per request: the parsed HTTP request
    local,    \* per request: the handler's in-memory Link document
    dirty,    \* per request: the paths of that document Mongoose holds modified
    result    \* per request: the HTTP response and the service's return value

vars == <<store, nextId, now, pc, req, local, dirty, result>>

----------------------------------------------------------------------------
(* Bounds of the model *)

\* number of HTTP requests of one behaviour (each may overlap all the others)
NumReqs == 4
\* the requests among them that may carry any input, well-formed or not
NumAnyReqs == 2
\* the last instant of the clock
MaxTime == 2

Procs == 1..NumReqs

----------------------------------------------------------------------------
(* constants/apiStatus.js, constants/messages.js *)

STATUS_OK == 200
STATUS_CREATED == 201
STATUS_NO_CONTENT == 204
STATUS_FOUND == 302
STATUS_BAD_REQUEST == 400
STATUS_NOT_FOUND == 404
STATUS_CONFLICT == 409
STATUS_INTERNAL_SERVER_ERROR == 500

LINK_NOT_FOUND == "Link not found"
CODE_EXISTS == "Short code already exists"
INVALID_URL == "Invalid URL provided"
INVALID_CODE == "Invalid short code format"
SERVER_ERROR == "Internal server error"

\* the two plain-text bodies of redirectLink
NOT_FOUND_TEXT == "Not Found"
SERVER_ERROR_TEXT == "Server error"

\* messages of errors raised below the service (driver, Mongoose)
E11000 == "E11000 duplicate key error"
VALIDATION_FAILED == "Link validation failed"

----------------------------------------------------------------------------
(* Strings that the code inspects are sequences of one-character strings.  *)

Lower == {"a","b","c","d","e","f","g","h","i","j","k","l","m",
          "n","o","p","q","r","s","t","u","v","w","x","y","z"}
Upper == {"A","B","C","D","E","F","G","H","I","J","K","L","M",
          "N","O","P","Q","R","S","T","U","V","W","X","Y","Z"}
Digit == {"0","1","2","3","4","5","6","7","8","9"}

\* linkSchema.shortCode: minlength / maxlength
minlength == 6
maxlength == 8

\* constants/regex.js: 6 to 8 alphanumeric characters
CODE_REGEX(s) ==
    /\ Len(s) >= minlength
    /\ Len(s) <= maxlength
    /\ \A i \in 1..Len(s) : s[i] \in Lower \cup Upper \cup Digit

abc123   == <<"a","b","c","1","2","3">>
Xy7Zq9Ab == <<"X","y","7","Z","q","9","A","b">>
abc12    == <<"a","b","c","1","2">>
abcd56789 == <<"a","b","c","d","5","6","7","8","9">>
abDash12 == <<"a","b","-","1","2","3">>
EmptyStr == <<>>

\* shortCode values a client may put in the body of POST /api/links
BodyCodes == {abc123, Xy7Zq9Ab, abc12, abcd56789, abDash12, EmptyStr}
\* :code values a client may put in a path (a path segment is never empty)
PathCodes == {abc123, Xy7Zq9Ab, abc12, abDash12}

\* originalUrl values a client may send, and what new URL() makes of them
Urls == {"https://example.com", "http://other.org/a?b=1", "example.com"}

\* new URL(u) does not throw
IsUrl(u) == u \in {"https://example.com", "http://other.org/a?b=1"}

\* utils/generateCode.js: a random code of the fixed format
GeneratedCodes == {abc123, Xy7Zq9Ab}

----------------------------------------------------------------------------
(* models/LinkModel.js *)

\* lastClicked: default null
Null == 0

\* the value of a handler variable that holds no document
NoLink == [id |-> 0, shortCode |-> EmptyStr, originalUrl |-> "",
           clicks |-> 0, lastClicked |-> Null, createdAt |-> Null]

NewLinkClicked(id, shortCode, originalUrl, time) ==
    [id |-> id, shortCode |-> shortCode, originalUrl |-> originalUrl,
     clicks |-> 1, lastClicked |-> Null, createdAt |-> time]

\* new Link({ shortCode, originalUrl }): schema defaults and a fresh _id
NewLink(id, shortCode, originalUrl, time) ==
    [id |-> id, shortCode |-> shortCode, originalUrl |-> originalUrl,
     clicks |-> 0, lastClicked |-> Null, createdAt |-> time]

\* Mongoose validation run by save(): required, minlength, maxlength
SchemaValid(doc) ==
    /\ doc.shortCode # EmptyStr
    /\ Len(doc.shortCode) >= minlength
    /\ Len(doc.shortCode) <= maxlength
    /\ doc.originalUrl # ""

UniqueIndexAbsent(doc) == TRUE

\* the unique index on shortCode admits the document
UniqueIndexAdmits(doc) == \A d \in store : d.shortCode # doc.shortCode

FindAnyCode(code) == store

\* Link.findOne({ shortCode }): the matching documents (none or one)
FindByCode(code) == {d \in store : d.shortCode = code}

\* Link.find({}, 'shortCode originalUrl clicks lastClicked')
Projection(d) == [id |-> d.id, shortCode |-> d.shortCode, originalUrl |-> d.originalUrl,
                  clicks |-> d.clicks, lastClicked |-> d.lastClicked]

----------------------------------------------------------------------------
(* Requests and responses *)

NoReq == [op |-> "none", url |-> "", hasCode |-> FALSE, code |-> EmptyStr]

NoResult == [status |-> 0, error |-> "", link |-> NoLink, links |-> {}]

Response(status, error, link) ==
    [status |-> status, error |-> error, link |-> link, links |-> {}]

Init ==
    /\ store = {}
    /\ nextId = 1
    /\ now = 1
    /\ pc = [p \in Procs |-> "idle"]
    /\ req = [p \in Procs |-> NoReq]
    /\ local = [p \in Procs |-> NoLink]
    /\ dirty = [p \in Procs |-> {}]
    /\ result = [p \in Procs |-> NoResult]

\* a request is accepted; requests are numbered in the order of their first step
Accept(p, r) ==
    /\ pc[p] = "idle"
    /\ \A q \in Procs : q < p => pc[q] # "idle"
    /\ req' = [req EXCEPT ![p] = r]

\* the request ends: the response is sent, the handler's variables die
Respond(p, r) ==
    /\ pc' = [pc EXCEPT ![p] = "done"]
    /\ result' = [result EXCEPT ![p] = r]
    /\ local' = [local EXCEPT ![p] = NoLink]
    /\ dirty' = [dirty EXCEPT ![p] = {}]

\* time passes
Tick ==
    /\ now < MaxTime
    /\ now' = now + 1
    /\ UNCHANGED <<store, nextId, pc, req, local, dirty, result>>

----------------------------------------------------------------------------
(* POST /api/links : LinkController.createLink, LinkService.createLink *)

CreateLinkCatchBadRequest(message) ==
    Response(STATUS_BAD_REQUEST, message, NoLink)

\* the catch block of LinkController.createLink
CreateLinkCatch(message) ==
    IF message = CODE_EXISTS
    THEN Response(STATUS_CONFLICT, message, NoLink)
    ELSE Response(STATUS_BAD_REQUEST, message, NoLink)

\* the bodies a client may post: shortCode present (any string) or missing
CreateBodies ==
    [url : Urls, hasCode : {TRUE}, code : BodyCodes]
        \cup [url : Urls, hasCode : {FALSE}, code : {EmptyStr}]

\* step 2 of LinkService.createLink: the code the request goes on with;
\* generated is the value generateCode() returns if it is called
ShortCodeOf(body, generated) ==
    IF ~body.hasCode \/ body.code = EmptyStr THEN generated ELSE body.code

CreateValidationUrlOnly(url, shortCode) ==
    IF ~IsUrl(url) THEN INVALID_URL ELSE ""

CreateValidationCodeFirst(url, shortCode) ==
    IF ~CODE_REGEX(shortCode) THEN INVALID_CODE
    ELSE IF ~IsUrl(url) THEN INVALID_URL
    ELSE ""

\* steps 1 and 3 of LinkService.createLink: the message of the error thrown,
\* "" when none is
CreateValidation(url, shortCode) ==
    IF ~IsUrl(url) THEN INVALID_URL
    ELSE IF ~CODE_REGEX(shortCode) THEN INVALID_CODE
    ELSE ""

CreateLinkRetrying(p, body, generated) ==
    /\ Accept(p, [op |-> "create", url |-> body.url,
                  hasCode |-> body.hasCode, code |-> body.code])
    /\ LET shortCode == ShortCodeOf(body, generated)
           invalid == CreateValidation(body.url, shortCode)
       IN  IF invalid # ""
           THEN /\ Respond(p, CreateLinkCatch(invalid))
                /\ UNCHANGED nextId
           ELSE IF FindByCode(shortCode) # {} /\ shortCode # generated
           THEN /\ Respond(p, CreateLinkCatch(CODE_EXISTS))
                /\ UNCHANGED nextId
           ELSE IF FindByCode(shortCode) # {}
           THEN /\ pc' = [pc EXCEPT ![p] = "generateCode"]
                /\ UNCHANGED <<nextId, local, dirty, result>>
           ELSE /\ local' = [local EXCEPT ![p] =
                                NewLink(nextId, shortCode, body.url, now)]
                /\ nextId' = nextId + 1
                /\ pc' = [pc EXCEPT ![p] = "createSave"]
                /\ UNCHANGED <<dirty, result>>
    /\ UNCHANGED <<store, now>>

\* steps 1 to 5 of LinkService.createLink up to the await of save():
\* validation, findOne, and on no match the new document
CreateLink(p, body, generated) ==
    /\ Accept(p, [op |-> "create", url |-> body.url,
                  hasCode |-> body.hasCode, code |-> body.code])
    /\ LET shortCode == ShortCodeOf(body, generated)
           invalid == CreateValidation(body.url, shortCode)
       IN  IF invalid # ""
           THEN /\ Respond(p, CreateLinkCatch(invalid))
                /\ UNCHANGED nextId
           ELSE IF FindByCode(shortCode) # {}
           THEN /\ Respond(p, CreateLinkCatch(CODE_EXISTS))
                /\ UNCHANGED nextId
           ELSE /\ local' = [local EXCEPT ![p] =
                                NewLink(nextId, shortCode, body.url, now)]
                /\ nextId' = nextId + 1
                /\ pc' = [pc EXCEPT ![p] = "createSave"]
                /\ UNCHANGED <<dirty, result>>
    /\ UNCHANGED <<store, now>>

\* save() of a new document: validation, then one insert that the unique
\* index admits or rejects; the controller answers 201 or its catch block runs
CreateSave(p) ==
    /\ pc[p] = "createSave"
    /\ IF ~SchemaValid(local[p])
       THEN /\ Respond(p, CreateLinkCatch(VALIDATION_FAILED))
            /\ UNCHANGED store
       ELSE IF ~UniqueIndexAdmits(local[p])
       THEN /\ Respond(p, CreateLinkCatch(E11000))
            /\ UNCHANGED store
       ELSE /\ store' = store \cup {local[p]}
            /\ Respond(p, Response(STATUS_CREATED, "", local[p]))
    /\ UNCHANGED <<nextId, now, req>>

----------------------------------------------------------------------------
(* middleware/validateCode.js, in front of every :code route *)

validateCode(code) == CODE_REGEX(code)

PathReq(op, code) == [op |-> op, url |-> "", hasCode |-> TRUE, code |-> code]

InvalidCodeResponse == Response(STATUS_BAD_REQUEST, INVALID_CODE, NoLink)

----------------------------------------------------------------------------
(* GET /:code and GET /api/links/:code/redirect : redirectLink *)

IncrementClicksOnly(link, time) ==
    [link EXCEPT !.clicks = @ + 1]

IncrementClicksTwice(link, time) ==
    [link EXCEPT !.clicks = @ + 2, !.lastClicked = time]

\* LinkService.incrementClicks up to its await: the in-memory document
IncrementClicks(link, time) ==
    [link EXCEPT !.clicks = @ + 1, !.lastClicked = time]

\* the paths Mongoose marks modified: those whose value changed
ModifiedPaths(old, new) ==
    (IF old.clicks # new.clicks THEN {"clicks"} ELSE {})
        \cup (IF old.lastClicked # new.lastClicked THEN {"lastClicked"} ELSE {})

\* validateCode, getLinkByCode, and on a match incrementClicks up to the
\* await of save()
RedirectLink(p, code) ==
    /\ Accept(p, PathReq("redirect", code))
    /\ IF ~validateCode(code)
       THEN Respond(p, InvalidCodeResponse)
       ELSE IF FindByCode(code) = {}
       THEN Respond(p, Response(STATUS_NOT_FOUND, NOT_FOUND_TEXT, NoLink))
       ELSE \E link \in FindByCode(code) :
                /\ local' = [local EXCEPT ![p] = IncrementClicks(link, now)]
                /\ dirty' = [dirty EXCEPT ![p] =
                                ModifiedPaths(link, IncrementClicks(link, now))]
                /\ pc' = [pc EXCEPT ![p] = "incrementSave"]
                /\ UNCHANGED result
    /\ UNCHANGED <<store, nextId, now>>

SetModifiedAndCreatedAt(d, link, paths) ==
    [d EXCEPT !.clicks = IF "clicks" \in paths THEN link.clicks ELSE @,
              !.lastClicked = IF "lastClicked" \in paths
                              THEN link.lastClicked ELSE @,
              !.createdAt = link.lastClicked]

\* the update save() sends: $set of the modified paths to their in-memory values
SetModified(d, link, paths) ==
    [d EXCEPT !.clicks = IF "clicks" \in paths THEN link.clicks ELSE @,
              !.lastClicked = IF "lastClicked" \in paths
                              THEN link.lastClicked ELSE @]

IncrementSaveUpsert(p) ==
    /\ pc[p] = "incrementSave"
    /\ store' = {d \in store : d.id # local[p].id} \cup {local[p]}
    /\ Respond(p, Response(STATUS_FOUND, "", local[p]))
    /\ UNCHANGED <<nextId, now, req>>

IncrementSaveByCode(p) ==
    /\ pc[p] = "incrementSave"
    /\ IF FindByCode(local[p].shortCode) # {}
       THEN \E d \in FindByCode(local[p].shortCode) :
                /\ store' = (store \ {d}) \cup {SetModified(d, local[p], dirty[p])}
                /\ Respond(p, Response(STATUS_FOUND, "", local[p]))
       ELSE /\ Respond(p, Response(STATUS_INTERNAL_SERVER_ERROR,
                                   SERVER_ERROR_TEXT, NoLink))
            /\ UNCHANGED store
    /\ UNCHANGED <<nextId, now, req>>

\* save() of the loaded document: updateOne by _id; no match is a
\* DocumentNotFoundError, which the catch block of redirectLink answers
IncrementSave(p) ==
    /\ pc[p] = "incrementSave"
    /\ IF \E d \in store : d.id = local[p].id
       THEN \E d \in store :
                /\ d.id = local[p].id
                /\ store' = (store \ {d}) \cup {SetModified(d, local[p], dirty[p])}
                /\ Respond(p, Response(STATUS_FOUND, "", local[p]))
       ELSE /\ Respond(p, Response(STATUS_INTERNAL_SERVER_ERROR,
                                   SERVER_ERROR_TEXT, NoLink))
            /\ UNCHANGED store
    /\ UNCHANGED <<nextId, now, req>>

----------------------------------------------------------------------------
(* GET /api/links/:code : getLinkStats *)

GetLinkStatsCounting(p, code) ==
    /\ Accept(p, PathReq("stats", code))
    /\ IF ~validateCode(code)
       THEN Respond(p, InvalidCodeResponse) /\ UNCHANGED store
       ELSE IF FindByCode(code) = {}
       THEN /\ Respond(p, Response(STATUS_NOT_FOUND, LINK_NOT_FOUND, NoLink))
            /\ UNCHANGED store
       ELSE \E link \in FindByCode(code) :
                /\ store' = (store \ {link}) \cup {IncrementClicks(link, now)}
                /\ Respond(p, Response(STATUS_OK, "", link))
    /\ UNCHANGED <<nextId, now>>

GetLinkStats(p, code) ==
    /\ Accept(p, PathReq("stats", code))
    /\ IF ~validateCode(code)
       THEN Respond(p, InvalidCodeResponse)
       ELSE IF FindByCode(code) = {}
       THEN Respond(p, Response(STATUS_NOT_FOUND, LINK_NOT_FOUND, NoLink))
       ELSE \E link \in FindByCode(code) :
                Respond(p, Response(STATUS_OK, "", link))
    /\ UNCHANGED <<store, nextId, now>>

----------------------------------------------------------------------------
(* DELETE /api/links/:code : deleteLink *)

DeleteLinkKeepsRecord(p, code) ==
    /\ Accept(p, PathReq("delete", code))
    /\ IF ~validateCode(code)
       THEN Respond(p, InvalidCodeResponse)
       ELSE IF FindByCode(code) = {}
       THEN Respond(p, Response(STATUS_NOT_FOUND, LINK_NOT_FOUND, NoLink))
       ELSE \E link \in FindByCode(code) :
                Respond(p, Response(STATUS_NO_CONTENT, "", link))
    /\ UNCHANGED <<store, nextId, now>>

\* validateCode, then Link.findOneAndDelete({ shortCode: code })
DeleteLink(p, code) ==
    /\ Accept(p, PathReq("delete", code))
    /\ IF ~validateCode(code)
       THEN /\ Respond(p, InvalidCodeResponse)
            /\ UNCHANGED store
       ELSE IF FindByCode(code) = {}
       THEN /\ Respond(p, Response(STATUS_NOT_FOUND, LINK_NOT_FOUND, NoLink))
            /\ UNCHANGED store
       ELSE \E link \in FindByCode(code) :
                /\ store' = store \ {link}
                /\ Respond(p, Response(STATUS_NO_CONTENT, "", link))
    /\ UNCHANGED <<nextId, now>>

----------------------------------------------------------------------------
(* GET /api/links : getAllLinks *)

GetAllLinks(p) ==
    /\ Accept(p, [NoReq EXCEPT !.op = "getAll"])
    /\ Respond(p, [Response(STATUS_OK, "", NoLink)
                      EXCEPT !.links = {Projection(d) : d \in store}])
    /\ UNCHANGED <<store, nextId, now>>

----------------------------------------------------------------------------
(* The link lifecycle under concurrent well-formed requests *)

\* well-formed bodies: a URL, and a custom code of the format or none
ValidBodies ==
    {b \in CreateBodies : b.url = "https://example.com"
                              /\ (b.hasCode => CODE_REGEX(b.code))}

ValidCodes == {c \in PathCodes : CODE_REGEX(c)}

Next ==
    \/ \E p \in Procs, body \in ValidBodies, g \in GeneratedCodes :
          CreateLink(p, body, g)
    \/ \E p \in Procs : CreateSave(p)
    \/ \E p \in Procs, code \in ValidCodes : RedirectLink(p, code)
    \/ \E p \in Procs : IncrementSave(p)
    \/ \E p \in Procs, code \in ValidCodes : DeleteLink(p, code)

Spec == Init /\ [][Next]_vars

----------------------------------------------------------------------------
(* Create requests alone, each database command of which returns *)

NextCreate ==
    \/ \E p \in Procs, body \in ValidBodies, g \in GeneratedCodes :
          CreateLink(p, body, g)
    \/ \E p \in Procs : CreateSave(p)

\* the await of newLink.save() resumes: the pending command of every create
\* request is eventually answered
SpecCreate ==
    /\ Init /\ [][NextCreate]_vars
    /\ \A p \in Procs : WF_vars(CreateSave(p))

----------------------------------------------------------------------------
(* app.js: what a top-level GET /<segment> is dispatched to *)

LowerLetters == <<"a","b","c","d","e","f","g","h","i","j","k","l","m",
                  "n","o","p","q","r","s","t","u","v","w","x","y","z">>
UpperLetters == <<"A","B","C","D","E","F","G","H","I","J","K","L","M",
                  "N","O","P","Q","R","S","T","U","V","W","X","Y","Z">>

\* String.prototype.toLowerCase on one character
ToLowerChar(ch) ==
    IF \E i \in DOMAIN UpperLetters : UpperLetters[i] = ch
    THEN LowerLetters[CHOOSE i \in DOMAIN UpperLetters : UpperLetters[i] = ch]
    ELSE ch

ToLower(s) == [i \in DOMAIN s |-> ToLowerChar(s[i])]

\* the prefix of app.use('/healthz', healthRoutes), without its slash
healthz == <<"h","e","a","l","t","h","z">>
Healthz == <<"H","e","a","l","t","h","z">>

\* Express matches a mount path without regard to case ('case sensitive
\* routing' is off unless enabled); a one-segment path matches the mount
\* when the segment is the prefix
MountMatches(mount, segment) == ToLower(segment) = ToLower(mount)

\* first segments of a GET request, and custom codes of a create
RouteCodes == {abc123, healthz, Healthz}

RouteBodies ==
    [url : {"https://example.com"}, hasCode : {TRUE}, code : RouteCodes]

\* router.get('/') of health.routes.js: 200 with the status report
HealthCheck(p, segment) ==
    /\ Accept(p, PathReq("health", segment))
    /\ Respond(p, Response(STATUS_OK, "", NoLink))
    /\ UNCHANGED <<store, nextId, now>>

\* GET /<segment>: the routes of app.js in the order they are mounted;
\* /api/links needs two segments, then /healthz, then /:code
AppGet(p, segment) ==
    IF MountMatches(healthz, segment)
    THEN HealthCheck(p, segment)
    ELSE RedirectLink(p, segment)

NextRoute ==
    \/ \E p \in Procs, body \in RouteBodies, g \in GeneratedCodes :
          CreateLink(p, body, g)
    \/ \E p \in Procs : CreateSave(p)
    \/ \E p \in Procs, segment \in RouteCodes : AppGet(p, segment)
    \/ \E p \in Procs : IncrementSave(p)

SpecRoute == Init /\ [][NextRoute]_vars

----------------------------------------------------------------------------
(* Every route with every input, while time passes *)

AnyProcs == 1..NumAnyReqs

NextAnyRequest ==
    \/ \E p \in AnyProcs, body \in CreateBodies, g \in GeneratedCodes :
          CreateLink(p, body, g)
    \/ \E p \in AnyProcs : CreateSave(p)
    \/ \E p \in AnyProcs, code \in PathCodes : RedirectLink(p, code)
    \/ \E p \in AnyProcs : IncrementSave(p)
    \/ \E p \in AnyProcs, code \in PathCodes : GetLinkStats(p, code)
    \/ \E p \in AnyProcs, code \in PathCodes : DeleteLink(p, code)
    \/ \E p \in AnyProcs : GetAllLinks(p)

NextAny == Tick \/ NextAnyRequest

SpecAny == Init /\ [][NextAny]_vars

----------------------------------------------------------------------------
(* The same requests together with the two read routes *)

NextRead ==
    \/ Next
    \/ \E p \in Procs, code \in ValidCodes : GetLinkStats(p, code)
    \/ \E p \in Procs : GetAllLinks(p)

SpecRead == Init /\ [][NextRead]_vars

----------------------------------------------------------------------------
(* Well-formed requests served one after another: a request is accepted   *)
(* only when every earlier one has been answered                          *)

Quiet == \A p \in Procs : pc[p] \in {"idle", "done"}

NextSeq ==
    \/ Quiet /\ \E p \in Procs, body \in ValidBodies, g \in GeneratedCodes :
                    CreateLink(p, body, g)
    \/ \E p \in Procs : CreateSave(p)
    \/ Quiet /\ \E p \in Procs, code \in ValidCodes : RedirectLink(p, code)
    \/ \E p \in Procs : IncrementSave(p)
    \/ Quiet /\ \E p \in Procs, code \in ValidCodes : GetLinkStats(p, code)
    \/ Quiet /\ \E p \in Procs, code \in ValidCodes : DeleteLink(p, code)
    \/ Quiet /\ \E p \in Procs : GetAllLinks(p)

SpecSeq == Init /\ [][NextSeq]_vars

----------------------------------------------------------------------------
(* Database commands that fail: the driver rejects the awaited promise    *)
(* (no connection, timeout) and the command is not applied; the clock     *)
(* stands still                                                           *)

\* the message of the driver's error
MONGO_ERROR == "MongoNetworkError"

\* findOne of LinkService.createLink rejects
CreateLinkFault(p, body, generated) ==
    /\ Accept(p, [op |-> "create", url |-> body.url,
                  hasCode |-> body.hasCode, code |-> body.code])
    /\ CreateValidation(body.url, ShortCodeOf(body, generated)) = ""
    /\ Respond(p, CreateLinkCatch(MONGO_ERROR))
    /\ UNCHANGED <<store, nextId, now>>

\* the insert of newLink.save() rejects
CreateSaveFault(p) ==
    /\ pc[p] = "createSave"
    /\ SchemaValid(local[p])
    /\ Respond(p, CreateLinkCatch(MONGO_ERROR))
    /\ UNCHANGED <<store, nextId, now, req>>

\* getLinkByCode of redirectLink rejects
RedirectLinkFault(p, code) ==
    /\ Accept(p, PathReq("redirect", code))
    /\ validateCode(code)
    /\ Respond(p, Response(STATUS_INTERNAL_SERVER_ERROR, SERVER_ERROR_TEXT, NoLink))
    /\ UNCHANGED <<store, nextId, now>>

\* the update of link.save() rejects
IncrementSaveFault(p) ==
    /\ pc[p] = "incrementSave"
    /\ Respond(p, Response(STATUS_INTERNAL_SERVER_ERROR, SERVER_ERROR_TEXT, NoLink))
    /\ UNCHANGED <<store, nextId, now, req>>

\* getLinkByCode of getLinkStats rejects
GetLinkStatsFault(p, code) ==
    /\ Accept(p, PathReq("stats", code))
    /\ validateCode(code)
    /\ Respond(p, Response(STATUS_INTERNAL_SERVER_ERROR, SERVER_ERROR, NoLink))
    /\ UNCHANGED <<store, nextId, now>>

\* findOneAndDelete rejects
DeleteLinkFault(p, code) ==
    /\ Accept(p, PathReq("delete", code))
    /\ validateCode(code)
    /\ Respond(p, Response(STATUS_INTERNAL_SERVER_ERROR, SERVER_ERROR, NoLink))
    /\ UNCHANGED <<store, nextId, now>>

\* Link.find of getAllLinks rejects
GetAllLinksFault(p) ==
    /\ Accept(p, [NoReq EXCEPT !.op = "getAll"])
    /\ Respond(p, Response(STATUS_INTERNAL_SERVER_ERROR, SERVER_ERROR, NoLink))
    /\ UNCHANGED <<store, nextId, now>>

NextFault ==
    \/ NextAnyRequest
    \/ \E p \in AnyProcs, body \in CreateBodies, g \in GeneratedCodes :
          CreateLinkFault(p, body, g)
    \/ \E p \in AnyProcs : CreateSaveFault(p)
    \/ \E p \in AnyProcs, code \in PathCodes : RedirectLinkFault(p, code)
    \/ \E p \in AnyProcs : IncrementSaveFault(p)
    \/ \E p \in AnyProcs, code \in PathCodes : GetLinkStatsFault(p, code)
    \/ \E p \in AnyProcs, code \in PathCodes : DeleteLinkFault(p, code)
    \/ \E p \in AnyProcs : GetAllLinksFault(p)

SpecFault == Init /\ [][NextFault]_vars

----------------------------------------------------------------------------
(* Properties *)

Done(p) == pc[p] = "done"

\* request p takes its first step in this transition
Accepted(p) == pc[p] = "idle" /\ pc'[p] # "idle"

\* request p receives its response in this transition
Answered(p) == pc[p] # "done" /\ pc'[p] = "done"

\* p is a create request that carries a custom code
CustomCreate(r) == r.op = "create" /\ r.hasCode /\ r.code # EmptyStr

\* C1: in every reachable state the store holds at most one record per
\* shortCode value
C1_UniqueShortCode ==
    \A d1 \in store : \A d2 \in store :
        d1.shortCode = d2.shortCode => d1 = d2

\* two inserts of one code raced: one was stored, the index rejected the other
C1_Witness ==
    \E p \in Procs : \E q \in Procs :
        /\ Done(p) /\ Done(q)
        /\ result[p].status = STATUS_CREATED
        /\ result[q].error = E11000
        /\ \E d \in store : d = result[p].link

\* C2: of two creates with the same well-formed custom code, with no delete
\* of that code, exactly one succeeds and the other fails with CodeExists,
\* and the stored record is the winner's
C2_OneCreatedOneCodeExists ==
    \A p \in Procs : \A q \in Procs :
        ( /\ p # q /\ Done(p) /\ Done(q)
          /\ CustomCreate(req[p]) /\ CustomCreate(req[q])
          /\ req[p].code = req[q].code
          /\ IsUrl(req[p].url) /\ IsUrl(req[q].url) /\ CODE_REGEX(req[p].code)
          /\ \A r \in Procs : ~(req[r].op = "delete" /\ req[r].code = req[p].code)
          /\ result[p].status = STATUS_CREATED )
        => /\ result[q].status = STATUS_CONFLICT
           /\ result[q].error = CODE_EXISTS
           /\ \E d \in store : /\ d.id = result[p].link.id
                               /\ d.shortCode = req[p].code
                               /\ d.originalUrl = req[p].url

\* the redirect requests answered with a redirect for document id
Redirected(id) ==
    {p \in Procs : /\ Done(p) /\ req[p].op = "redirect"
                   /\ result[p].status = STATUS_FOUND
                   /\ result[p].link.id = id}

\* C3: once the N redirects of a stored record have all completed, its clicks
\* value is N
C3_NoLostClick ==
    \A d \in store :
        (\A p \in Procs : ~(pc[p] = "incrementSave" /\ local[p].id = d.id))
        => d.clicks = Cardinality(Redirected(d.id))

\* C4: the stored clicks of a record is a natural number, 0 at creation, and
\* never decreases from one state to the next
C4_ClicksMonotonic ==
    [][ /\ \A d \in store' : d.clicks \in Nat
        /\ \A d \in store' : (\A e \in store : e.id # d.id) => d.clicks = 0
        /\ \A d \in store : \A e \in store' :
              d.id = e.id => e.clicks >= d.clicks ]_vars

\* C5: a create with a custom code whose record exists fails with CodeExists
\* and leaves the store as it is, with exactly one record of that code
C5_SecondCreateCodeExists ==
    [][ \A p \in Procs :
          ( /\ Accepted(p) /\ CustomCreate(req'[p])
            /\ IsUrl(req'[p].url) /\ CODE_REGEX(req'[p].code)
            /\ FindByCode(req'[p].code) # {} )
          => /\ Answered(p)
             /\ result'[p].status = STATUS_CONFLICT
             /\ result'[p].error = CODE_EXISTS
             /\ store' = store
             /\ Cardinality({d \in store' : d.shortCode = req'[p].code}) = 1 ]_vars

\* a second create of a stored code, with another URL, was refused
C5_Witness ==
    \E p \in Procs :
        /\ Done(p) /\ CustomCreate(req[p])
        /\ result[p].status = STATUS_CONFLICT
        /\ \E d \in store : /\ d.shortCode = req[p].code
                            /\ d.originalUrl # req[p].url

\* C6: a redirect whose record was deleted between its lookup and its
\* write-back ends with the NotFound response
C6_DeletedMeansNotFound ==
    [][ \A p \in Procs :
          ( /\ pc[p] = "incrementSave" /\ Answered(p)
            /\ \A d \in store : d.id # local[p].id )
          => /\ result'[p].status = STATUS_NOT_FOUND
             /\ result'[p].error = NOT_FOUND_TEXT ]_vars

\* the error kind the specification gives to exhausted generation retries
ALLOCATION_EXHAUSTED == "AllocationExhausted"

\* C7: a create without a custom code never fails with CodeExists: it
\* succeeds or fails with AllocationExhausted
C7_GeneratedNeverCodeExists ==
    \A p \in Procs :
        ( Done(p) /\ req[p].op = "create" /\ ~CustomCreate(req[p])
          /\ IsUrl(req[p].url) )
        => /\ result[p].error # CODE_EXISTS
           /\ result[p].status = STATUS_CREATED
                 \/ result[p].error = ALLOCATION_EXHAUSTED

\* C8: every stored record has clicks = 0 exactly when lastClicked is null
C8_ClicksIffLastClicked ==
    \A d \in store : (d.clicks = 0) <=> (d.lastClicked = Null)

\* a record clicked twice, the second write-back carrying clicks alone
C8_Witness ==
    \E d \in store : d.clicks = 2 /\ d.lastClicked # Null

\* C9 as stated: every custom code that fails the format check, the empty
\* string included, makes create fail with InvalidCode and store nothing
C9_InvalidCodeRejected ==
    [][ \A p \in Procs :
          ( /\ Accepted(p) /\ req'[p].op = "create" /\ req'[p].hasCode
            /\ IsUrl(req'[p].url) /\ ~CODE_REGEX(req'[p].code) )
          => /\ Answered(p)
             /\ result'[p].status = STATUS_BAD_REQUEST
             /\ result'[p].error = INVALID_CODE
             /\ store' = store ]_vars

\* C9 amended: every non-empty custom code that fails the format check makes
\* create fail with InvalidCode and leaves the store unchanged
C9_NonEmptyInvalidCodeRejected ==
    [][ \A p \in Procs :
          ( /\ Accepted(p) /\ CustomCreate(req'[p])
            /\ IsUrl(req'[p].url) /\ ~CODE_REGEX(req'[p].code) )
          => /\ Answered(p)
             /\ result'[p].status = STATUS_BAD_REQUEST
             /\ result'[p].error = INVALID_CODE
             /\ store' = store ]_vars

\* a create whose custom code is too short, too long or holds a symbol was
\* refused while a record was stored
C9_Witness ==
    \E p \in Procs :
        /\ Done(p) /\ CustomCreate(req[p]) /\ IsUrl(req[p].url)
        /\ req[p].code \in {abc12, abcd56789, abDash12}
        /\ result[p].status = STATUS_BAD_REQUEST
        /\ result[p].error = INVALID_CODE
        /\ store # {}

CreatorsOf(d) ==
    {q \in Procs : /\ Done(q) /\ req[q].op = "create"
                   /\ result[q].status = STATUS_CREATED
                   /\ result[q].link.id = d.id}

DeletedIds ==
    {result[q].link.id : q \in {r \in Procs : /\ Done(r) /\ req[r].op = "delete"
                                              /\ result[r].status = STATUS_NO_CONTENT}}

\* a delete of code c has succeeded
DeleteSucceeded(c) ==
    \E q \in Procs : /\ Done(q) /\ req[q].op = "delete" /\ req[q].code = c
                     /\ result[q].status = STATUS_NO_CONTENT

\* the creates of code c that succeeded and whose record no delete has removed
LiveCreates(c) ==
    {q \in Procs : /\ Done(q) /\ req[q].op = "create"
                   /\ result[q].status = STATUS_CREATED
                   /\ result[q].link.shortCode = c
                   /\ result[q].link.id \notin DeletedIds}

\* C12: after a delete of c has succeeded and until a new create of c
\* succeeds, every redirect and statistics lookup of c that starts is answered
\* NotFound, and a create of c is not refused and stores its record
C12_DeletedThenFree ==
    [][ \A p \in Procs :
          /\ ( /\ Accepted(p) /\ DeleteSucceeded(req'[p].code)
               /\ LiveCreates(req'[p].code) = {} )
             => /\ req'[p].op \in {"redirect", "stats"}
                   => Answered(p) /\ result'[p].status = STATUS_NOT_FOUND
                /\ (CustomCreate(req'[p]) /\ IsUrl(req'[p].url))
                   => /\ pc'[p] = "createSave"
                      /\ local'[p].shortCode = req'[p].code
          /\ ( /\ pc[p] = "createSave" /\ Answered(p)
               /\ DeleteSucceeded(local[p].shortCode)
               /\ LiveCreates(local[p].shortCode) = {} )
             => /\ result'[p].status = STATUS_CREATED
                /\ local[p] \in store' ]_vars

\* a code was created, deleted, looked up in vain and created again
C12_Witness ==
    \E p \in Procs : \E q \in Procs : \E r \in Procs : \E t \in Procs :
        /\ Done(p) /\ CustomCreate(req[p]) /\ result[p].status = STATUS_CREATED
        /\ Done(q) /\ req[q].op = "delete" /\ result[q].status = STATUS_NO_CONTENT
        /\ result[q].link.id = result[p].link.id
        /\ Done(t) /\ req[t].op \in {"redirect", "stats"}
        /\ req[t].code = req[p].code /\ result[t].status = STATUS_NOT_FOUND
        /\ Done(r) /\ CustomCreate(req[r]) /\ result[r].status = STATUS_CREATED
        /\ req[r].code = req[p].code /\ r > t /\ t > q
        /\ result[r].link \in store

\* C13: when requests are served one after another, a stored record's clicks
\* is the number of redirects it has answered, every answered redirect
\* returns that number, and a delete returns the record with that number
C13_SequentialClicks ==
    /\ \A d \in store :
          (\A p \in Procs : local[p].id # d.id)
          => d.clicks = Cardinality(Redirected(d.id))
    /\ \A p \in Procs :
          (Done(p) /\ req[p].op = "redirect" /\ result[p].status = STATUS_FOUND)
          => result[p].link.clicks =
                Cardinality({q \in Redirected(result[p].link.id) : q <= p})
    /\ \A p \in Procs :
          (Done(p) /\ req[p].op = "delete" /\ result[p].status = STATUS_NO_CONTENT)
          => result[p].link.clicks = Cardinality(Redirected(result[p].link.id))

\* create, two redirects, then the delete returned the record with clicks = 2
C13_Witness ==
    \E p \in Procs :
        /\ Done(p) /\ req[p].op = "delete"
        /\ result[p].status = STATUS_NO_CONTENT
        /\ result[p].link.clicks = 2
        /\ result[p].link.lastClicked # Null
        /\ Cardinality(Redirected(result[p].link.id)) = 2

\* the delete requests that have been answered with the removed record
DeleteWinners(c) ==
    {p \in Procs : /\ Done(p) /\ req[p].op = "delete" /\ req[p].code = c
                   /\ result[p].status = STATUS_NO_CONTENT}

\* C14: of the delete requests for one code, at most one is answered with any
\* given record; a delete accepted for a code that has a record is answered
\* with that record, one accepted when it has none is answered NotFound, and
\* the record is not in the store afterwards
C14_OneDeleteWins ==
    [][\A p \in Procs :
          (Accepted(p) /\ req'[p].op = "delete")
          => /\ Answered(p)
             /\ \A d \in FindByCode(req'[p].code) :
                   /\ result'[p].status = STATUS_NO_CONTENT
                   /\ result'[p].link = d
                   /\ d \notin store'
                   /\ \A q \in DeleteWinners(req'[p].code) :
                         result[q].link.id # d.id
             /\ FindByCode(req'[p].code) = {}
                => /\ result'[p].status = STATUS_NOT_FOUND
                   /\ result'[p].error = LINK_NOT_FOUND
                   /\ store' = store]_vars

\* two deletes of the same code, neither preceded by a new create of it: one
\* is answered with the record, the other NotFound, and the record is gone
C14_Witness ==
    \E p \in Procs, q \in Procs :
        /\ p # q
        /\ Done(p) /\ req[p].op = "delete"
        /\ Done(q) /\ req[q].op = "delete" /\ req[q].code = req[p].code
        /\ result[p].status = STATUS_NO_CONTENT
        /\ result[q].status = STATUS_NOT_FOUND
        /\ FindByCode(req[p].code) = {}
        /\ Cardinality({r \in Procs : req[r].op = "create"}) = 1

\* a database command of request p is rejected by the driver in this step
StorageFailure(p) ==
    \/ \E body \in CreateBodies, generated \in GeneratedCodes :
          CreateLinkFault(p, body, generated)
    \/ CreateSaveFault(p)
    \/ \E code \in PathCodes :
          \/ RedirectLinkFault(p, code)
          \/ GetLinkStatsFault(p, code)
          \/ DeleteLinkFault(p, code)
    \/ IncrementSaveFault(p)

\* the statuses the controllers give to InvalidUrl and InvalidCode (400),
\* NotFound (404) and CodeExists (409)
BusinessStatuses == {STATUS_BAD_REQUEST, STATUS_NOT_FOUND, STATUS_CONFLICT}

\* C15: a request whose database command is rejected by the driver is
\* answered with a status that no business-rule error is answered with
C15_StorageFailureDistinct ==
    [][\A p \in Procs :
          StorageFailure(p) => result'[p].status \notin BusinessStatuses]_vars

\* C16: a record enters the store only in the step in which a create request
\* is answered 201 with that record; in particular the write-back of a
\* redirect never adds a record
C16_OnlyCreateAdds ==
    [][\A d \in store' :
          (\A e \in store : e.id # d.id)
          => \E p \in Procs :
                /\ pc[p] = "createSave" /\ Answered(p)
                /\ req[p].op = "create"
                /\ result'[p].status = STATUS_CREATED
                /\ result'[p].link = d]_vars

\* a redirect found the record, a delete removed it, and the redirect's
\* write-back then failed: no record of the code is in the store
C16_Witness ==
    \E p \in Procs, q \in Procs :
        /\ Done(p) /\ req[p].op = "redirect"
        /\ result[p].status = STATUS_INTERNAL_SERVER_ERROR
        /\ Done(q) /\ req[q].op = "delete" /\ req[q].code = req[p].code
        /\ result[q].status = STATUS_NO_CONTENT
        /\ FindByCode(req[p].code) = {}

\* C17: a record that stays in the store keeps its shortCode, originalUrl and
\* createdAt in every step, and it changes at all only in the step in which
\* the write-back of a redirect of that record is answered
C17_ImmutableFields ==
    [][\A d \in store : \A e \in store' :
          e.id = d.id
          => /\ e.shortCode = d.shortCode
             /\ e.originalUrl = d.originalUrl
             /\ e.createdAt = d.createdAt
             /\ e # d => \E p \in Procs :
                            /\ pc[p] = "incrementSave" /\ Answered(p)
                            /\ req[p].op = "redirect"
                            /\ local[p].id = d.id]_vars

\* a redirect changed clicks and lastClicked of a record at a later time than
\* its creation, and createdAt still is the creation time
C17_Witness ==
    \E d \in store :
        /\ d.clicks = 1
        /\ d.lastClicked # Null
        /\ d.lastClicked # d.createdAt
        /\ \E p \in Procs : /\ Done(p) /\ req[p].op = "create"
                            /\ result[p].status = STATUS_CREATED
                            /\ result[p].link.id = d.id
                            /\ result[p].link.createdAt = d.createdAt

\* C18: every step of a statistics request or of a list request leaves the
\* store unchanged
C18_ReadsLeaveStore ==
    [][\A p \in Procs :
          (Accepted(p) /\ req'[p].op \in {"stats", "getAll"})
          => /\ Answered(p)
             /\ store' = store]_vars

\* a statistics request and a list request have been answered with a record
\* that is still in the store with clicks = 0 and no lastClicked
C18_Witness ==
    \E p \in Procs, q \in Procs : \E d \in store :
        /\ Done(p) /\ req[p].op = "stats"
        /\ result[p].status = STATUS_OK /\ result[p].link = d
        /\ Done(q) /\ req[q].op = "getAll"
        /\ result[q].status = STATUS_OK /\ Projection(d) \in result[q].links
        /\ d.clicks = 0
        /\ d.lastClicked = Null

\* the code the step of request p operates on: the path parameter, or the
\* shortCode of the document a create builds and saves
ActingCode(p) ==
    IF req'[p].op = "create"
    THEN IF pc[p] = "createSave" THEN local[p].shortCode ELSE local'[p].shortCode
    ELSE req'[p].code

\* C19: a step of a create, redirect or delete request on code c neither
\* adds, removes nor changes a record whose shortCode is not c
C19_OtherCodesUntouched ==
    [][\A p \in Procs :
          pc'[p] # pc[p]
          => \A d \in store \cup store' :
                d.shortCode # ActingCode(p) => (d \in store /\ d \in store')]_vars

\* a record of one code was redirected and then deleted while the record of
\* another code, created before, is in the store as it was created
C19_Witness ==
    \E p \in Procs, q \in Procs, r \in Procs : \E d \in store :
        /\ Done(p) /\ req[p].op = "redirect" /\ result[p].status = STATUS_FOUND
        /\ Done(q) /\ req[q].op = "delete" /\ result[q].status = STATUS_NO_CONTENT
        /\ req[q].code = req[p].code
        /\ d.shortCode # req[p].code
        /\ Done(r) /\ req[r].op = "create" /\ result[r].link = d
        /\ r < p

\* C20: a create request whose originalUrl is not a well-formed URL is
\* answered in its first step with 400 and the InvalidUrl message, whatever
\* its code is, and that step issues no database command: the store and the
\* id counter stay as they were and no driver error can be the answer
C20_InvalidUrlFirst ==
    [][\A p \in Procs :
          (Accepted(p) /\ req'[p].op = "create" /\ ~IsUrl(req'[p].url))
          => /\ Answered(p)
             /\ result'[p].status = STATUS_BAD_REQUEST
             /\ result'[p].error = INVALID_URL
             /\ store' = store
             /\ nextId' = nextId]_vars

\* a create with a malformed URL and a custom code that is already taken has
\* been answered InvalidUrl, not CodeExists
C20_Witness ==
    \E p \in Procs :
        /\ Done(p) /\ req[p].op = "create"
        /\ ~IsUrl(req[p].url)
        /\ CustomCreate(req[p])
        /\ FindByCode(req[p].code) # {}
        /\ result[p].status = STATUS_BAD_REQUEST
        /\ result[p].error = INVALID_URL

\* C21: every create request that has been accepted is eventually answered,
\* given that its database commands return
C21_CreateReturns ==
    \A p \in Procs : (req[p].op = "create") ~> Done(p)

\* a create without a custom code has been answered while every code the
\* generator can return was taken
C21_Witness ==
    \E p \in Procs :
        /\ Done(p) /\ req[p].op = "create" /\ ~req[p].hasCode
        /\ result[p].status # STATUS_CREATED
        /\ \A g \in GeneratedCodes : FindByCode(g) # {}

\* the redirect requests that have looked up the record with this id
LookedUp(id) ==
    Redirected(id) \cup {p \in Procs : pc[p] = "incrementSave" /\ local[p].id = id}

\* no stored record has more clicks than redirects that looked it up
ClicksWithinLookups ==
    \A d \in store : d.clicks <= Cardinality(LookedUp(d.id))

\* C22: a record enters the store with clicks = 0 and no lastClicked, the
\* write-back of a redirect leaves every record other than the one it looked
\* up as it was, and a record's clicks never exceed the number of redirects
\* that looked up that very record
C22_RecreatedStartsFresh ==
    [][/\ \A d \in store' :
             (\A e \in store : e.id # d.id)
             => d.clicks = 0 /\ d.lastClicked = Null
       /\ \A p \in Procs :
             (pc[p] = "incrementSave" /\ Answered(p))
             => \A d \in store : d.id # local[p].id => d \in store'
       /\ ClicksWithinLookups']_vars

\* a redirect looked up the record of a code, the record was deleted and the
\* code created again while the redirect's write-back is still pending: the
\* new record is in the store with clicks = 0 and no lastClicked
C22_Witness ==
    \E p \in Procs, q \in Procs, r \in Procs : \E d \in store :
        /\ pc[p] = "incrementSave" /\ req[p].op = "redirect"
        /\ local[p].clicks = 1
        /\ Done(q) /\ req[q].op = "delete"
        /\ result[q].status = STATUS_NO_CONTENT
        /\ result[q].link.id = local[p].id
        /\ Done(r) /\ req[r].op = "create"
        /\ result[r].status = STATUS_CREATED /\ result[r].link.id = d.id
        /\ d.shortCode = local[p].shortCode
        /\ d.id # local[p].id
        /\ d.clicks = 0 /\ d.lastClicked = Null

\* C23: a top-level GET whose segment is the code of a stored link reaches
\* the redirect handler, which looks the link up and goes on to count the
\* click
C23_StoredCodeResolvable ==
    [][\A p \in Procs, code \in RouteCodes :
          (AppGet(p, code) /\ FindByCode(code) # {})
          => /\ req'[p].op = "redirect"
             /\ pc'[p] = "incrementSave"]_vars

====
